---------------------------- MODULE Spec2Model ----------------------------
(***************************************************************************)
(* A model of the MCP demo: the client (client.py: OllamaClient, the       *)
(* Generation Bridge, and MCPDemoClient, the Capability Client) and the    *)
(* server (server.py: the Capability Host).                                *)
(*                                                                         *)
(* Three specifications share the variables:                               *)
(*   SpecBridge  OllamaClient.generate and process_mcp_prompt              *)
(*   Spec        MCPDemoClient: connect, disconnect and the seven actions  *)
(*   SpecHost    the host's resources and prompts, called directly or by   *)
(*               the URIs the client builds                                *)
(*   SpecLatin   the host's text mangler under its random draws            *)
(*   SpecRun     run_command: connect, one action, disconnect              *)
(*                                                                         *)
(* Python values whose type varies are tagged records (PyStr, PyNone,      *)
(* PyDict, ...); a Python dict is a function on its keys, so               *)
(* `k in d` is k \in DOMAIN d and {} is <<>>.  Text that the code inspects  *)
(* character by character is a sequence of one-character strings.          *)
(***************************************************************************)
EXTENDS Integers, Sequences, FiniteSets, TLC

VARIABLES
    ollama,      \* the OllamaClient object: base_url, model, api_url
    bridgeCall,  \* the last call of generate / process_mcp_prompt: its
                 \* arguments, the answer of the backend, how it ended, the
                 \* requests.post calls and the generate calls it made
    session,     \* MCPDemoClient.session: "None" or "ClientSession"
    handshake,   \* session.initialize(): "none" (no session object),
                 \* "pending", "done" or "failed"
    transport,   \* the stdio_client context: "none", "open" or "closed"
    pc,          \* where the client's coroutine is suspended: "idle", or
                 \* "initialize" (connect awaits session.initialize())
    pathExists,  \* os.path.exists(self.server_path)
    clientCall,  \* the last call of a MCPDemoClient method: its arguments,
                 \* self.session when it was called, how it ended ("pending"
                 \* while connect is suspended), the requests it issued on
                 \* the session and the posts it sent to the backend
    disconnected, \* history of the client: TRUE from a disconnect() that
                 \* completed until a connect() returns
    hostCall,    \* the last call of a host function (server.py): its
                 \* arguments and, once it has run, its result
    run          \* run_command: its command, where it stands ("none" when
                 \* the client is used without it), the client's methods it
                 \* has called so far, in order, each with how it ended,
                 \* and the exception that waits for the finally block

bridgeVars == <<ollama, bridgeCall>>
clientVars ==
    <<session, handshake, transport, pc, pathExists, clientCall, disconnected>>
hostVars == <<hostCall>>
runVars == <<run>>
vars == <<bridgeVars, clientVars, hostVars, runVars>>

(***************************************************************************)
(* Bounds                                                                  *)
(***************************************************************************)
\* messages in one prompt's message list
MaxMessages == 2

(***************************************************************************)
(* Python values                                                           *)
(***************************************************************************)
PyNone == [t |-> "NoneType"]
PyStr(s) == [t |-> "str", v |-> s]
PyInt(n) == [t |-> "int", v |-> n]
PyList(l) == [t |-> "list", v |-> l]
PyDict(d) == [t |-> "dict", v |-> d]

\* bool(x) for the values the model holds
Truthy(x) ==
    CASE x.t = "NoneType" -> FALSE
      [] x.t = "str" -> Len(x.v) > 0
      [] x.t = "int" -> x.v # 0
      [] x.t = "list" -> x.v # <<>>
      [] x.t = "dict" -> DOMAIN x.v # {}

Return(v) == [kind |-> "return", value |-> v]
Raise(e) == [kind |-> "raise", exc |-> e]

(***************************************************************************)
(* Text as a sequence of characters                                        *)
(***************************************************************************)
UpperCase ==
    <<"A", "B", "C", "D", "E", "F", "G", "H", "I", "J", "K", "L", "M",
      "N", "O", "P", "Q", "R", "S", "T", "U", "V", "W", "X", "Y", "Z">>
LowerCase ==
    <<"a", "b", "c", "d", "e", "f", "g", "h", "i", "j", "k", "l", "m",
      "n", "o", "p", "q", "r", "s", "t", "u", "v", "w", "x", "y", "z">>
Digit == <<"0", "1", "2", "3", "4", "5", "6", "7", "8", "9">>
\* the grave accent, which a TLA+ string literal cannot hold
Backtick == "[grave]"

\* str.lower(), one character and a whole string
lower_char(c) ==
    IF \E i \in DOMAIN UpperCase : UpperCase[i] = c
    THEN LowerCase[CHOOSE i \in DOMAIN UpperCase : UpperCase[i] = c]
    ELSE c
lower(s) == [i \in DOMAIN s |-> lower_char(s[i])]

\* sub in s: sub occurs in s as a contiguous substring
Contains(s, sub) ==
    \E i \in 1..(Len(s) - Len(sub) + 1) : SubSeq(s, i, i + Len(sub) - 1) = sub

\* s.startswith(prefix)
StartsWith(s, prefix) ==
    Len(s) >= Len(prefix) /\ SubSeq(s, 1, Len(prefix)) = prefix

\* str(n) of an int: its decimal digits, with a sign when negative
RECURSIVE Digits(_)
Digits(n) ==
    IF n < 10 THEN <<Digit[n + 1]>>
    ELSE Digits(n \div 10) \o <<Digit[(n % 10) + 1]>>
int_to_str(n) == IF n < 0 THEN <<"-">> \o Digits(-n) ELSE Digits(n)

(***************************************************************************)
(* OllamaClient                                                            *)
(***************************************************************************)
OllamaClient(base_url, model) ==
    [base_url |-> base_url, model |-> model,
     api_url |-> base_url \o "/api/generate"]

\* What the world answers to one requests.post: the transport fails, or a
\* response arrives with a status and a body.  A body is a JSON object (a
\* dict), another JSON value, or no JSON at all.  Whether the JSON decoding
\* error of response.json() is a requests.RequestException depends on the
\* installed requests (it is from 2.27 on): wrapsJson is that choice.
TransportDetails == {"Connection refused", "Read timed out"}
JsonBodies ==
    {[json |-> TRUE, value |-> PyDict([response |-> PyStr("Generated text")])],
     [json |-> TRUE, value |-> PyDict([response |-> PyStr("")])],
     [json |-> TRUE, value |-> PyDict([response |-> PyNone])],
     [json |-> TRUE, value |-> PyDict([error |-> PyStr("model not found")])],
     [json |-> TRUE, value |-> PyList(<<>>)],
     [json |-> FALSE, value |-> PyNone]}
NoBody == [json |-> FALSE, value |-> PyNone]
HttpOutcomes ==
    [kind : {"failure"}, detail : TransportDetails]
    \cup [kind : {"response"}, status : {404, 500}, body : {NoBody},
          wrapsJson : {TRUE}]
    \cup [kind : {"response"}, status : {200}, body : JsonBodies \ {NoBody},
          wrapsJson : {TRUE}]
    \cup [kind : {"response"}, status : {200}, body : {NoBody},
          wrapsJson : BOOLEAN]

\* response.raise_for_status(): an HTTPError for 4xx and 5xx
HttpErrorDetail(status) ==
    IF status = 404 THEN "404 Client Error" ELSE "500 Server Error"

payload(self, prompt, system) ==
    LET base == [model |-> PyStr(self.model), prompt |-> prompt,
                 stream |-> FALSE]
    IN  IF Truthy(system)
        THEN [k \in {"model", "prompt", "stream", "system"} |->
                 IF k = "system" THEN system ELSE base[k]]
        ELSE base

\* (mutant) a failed request is sent a second time
generate_retry(self, prompt, system, http) ==
    LET post == [url |-> self.api_url, json |-> payload(self, prompt, system)]
    IN  IF http.kind = "failure" \/ http.status >= 400
        THEN [posts |-> <<post, post>>,
              out |-> Return(PyStr("Error: " \o
                         (IF http.kind = "failure" THEN http.detail
                          ELSE HttpErrorDetail(http.status))))]
        ELSE [posts |-> <<post>>, out |-> Return(PyStr(""))]

\* generate: the posts it issues and how it ends
generate(self, prompt, system, http) ==
    LET post == [url |-> self.api_url, json |-> payload(self, prompt, system)]
        out ==
            IF http.kind = "failure"
            THEN Return(PyStr("Error: " \o http.detail))
            ELSE IF http.status >= 400
            THEN Return(PyStr("Error: " \o HttpErrorDetail(http.status)))
            ELSE IF ~http.body.json
            THEN IF http.wrapsJson
                 THEN Return(PyStr("Error: Expecting value"))
                 ELSE Raise("JSONDecodeError")
            ELSE IF http.body.value.t # "dict"
            THEN Raise("AttributeError")
            ELSE IF "response" \in DOMAIN http.body.value.v
            THEN Return(http.body.value.v["response"])
            ELSE Return(PyStr(""))
    IN  [posts |-> <<post>>, out |-> out]

\* next((m for m in messages if m["role"] == role), None): the generator is
\* consumed up to the first match, and m["role"] raises KeyError on a
\* message that has no "role" key
RECURSIVE first_with_role(_, _)
first_with_role(messages, role) ==
    IF messages = <<>> THEN [found |-> "None"]
    ELSE IF "role" \notin DOMAIN Head(messages) THEN [found |-> "KeyError"]
    ELSE IF Head(messages)["role"] = role
    THEN [found |-> "message", m |-> Head(messages)]
    ELSE first_with_role(Tail(messages), role)

\* (mutant) the "messages" key is not looked for
invalid_prompt_format_no_key_check(prompt_data) ==
    prompt_data.t # "dict"

\* not isinstance(prompt_data, dict) or "messages" not in prompt_data
invalid_prompt_format(prompt_data) ==
    prompt_data.t # "dict" \/ "messages" \notin DOMAIN prompt_data.v

\* "content" in m and "text" in m["content"]
has_text(m) == "content" \in DOMAIN m /\ "text" \in DOMAIN m["content"]

\* process_mcp_prompt: the generate calls it makes, the posts they issue,
\* and how it ends
process_mcp_prompt(self, prompt_data, http) ==
    IF invalid_prompt_format(prompt_data)
    THEN [posts |-> <<>>, calls |-> <<>>,
          out |-> Return(PyStr("Error: Invalid prompt format"))]
    \* prompt_data["messages"]: TypeError on a value that takes no string
    \* subscript, KeyError on a dict without the key
    ELSE IF prompt_data.t # "dict"
    THEN [posts |-> <<>>, calls |-> <<>>, out |-> Raise("TypeError")]
    ELSE IF "messages" \notin DOMAIN prompt_data.v
    THEN [posts |-> <<>>, calls |-> <<>>, out |-> Raise("KeyError")]
    ELSE
    LET messages == prompt_data.v["messages"]
        system_message == first_with_role(messages, "system")
        user_message == first_with_role(messages, "user")
    IN  IF system_message.found = "KeyError" \/ user_message.found = "KeyError"
        THEN [posts |-> <<>>, calls |-> <<>>, out |-> Raise("KeyError")]
        ELSE IF user_message.found = "None" \/ ~has_text(user_message.m)
        THEN [posts |-> <<>>, calls |-> <<>>,
              out |-> Return(PyStr("Error: Missing user message"))]
        ELSE
        LET system_text ==
                IF system_message.found = "message"
                   /\ has_text(system_message.m)
                THEN system_message.m["content"]["text"]
                ELSE PyNone
            user_text == user_message.m["content"]["text"]
            g == generate(self, user_text, system_text, http)
        IN  [posts |-> g.posts,
             calls |-> <<[prompt |-> user_text, system |-> system_text]>>,
             out |-> g.out]

(***************************************************************************)
(* MCPDemoClient                                                           *)
(***************************************************************************)
NotConnected == Raise("RuntimeError: Not connected to MCP server")

\* connect's path check left out
path_missing_unchecked(exists) == FALSE

\* `if not os.path.exists(self.server_path)`
path_missing(exists) == ~exists

\* (mutant) the check is missing
not_connected_unchecked(self) == FALSE

\* `if not self.session`
not_connected(self) == self.session = "None"

\* await self.session.<request>(...): the request goes out on the session's
\* transport.  On None the attribute lookup raises; on a transport that
\* stdio_client has closed the write fails; else the host's response arrives.
session_request(self, request, response) ==
    IF self.session = "None"
    THEN [requests |-> <<>>, out |-> Raise("AttributeError")]
    ELSE IF self.transport # "open"
    THEN [requests |-> <<request>>, out |-> Raise("ClosedResourceError")]
    ELSE [requests |-> <<request>>, out |-> Return(response)]

\* json.loads(content)
json_loads(content) ==
    IF content.json THEN Return(content.value) ELSE Raise("JSONDecodeError")

\* A method's result: how it ended, the requests it issued on the session
\* and the posts it sent to the generation backend.
Ended(out, requests, posts) ==
    [out |-> out, requests |-> requests, posts |-> posts]

transform_to_ancient_latin(self, text, env) ==
    IF not_connected(self) THEN Ended(NotConnected, <<>>, <<>>)
    ELSE LET r == session_request(self,
                      [op |-> "call_tool", name |-> "ancient_latin_text",
                       arguments |-> [text |-> text]], env.response)
         IN  Ended(r.out, r.requests, <<>>)

\* content, _ = await self.session.read_resource(uri); return content
read_content(self, uri, env) ==
    LET r == session_request(self, [op |-> "read_resource", uri |-> uri],
                             <<env.response, PyNone>>)
    IN  IF r.out.kind = "raise" THEN r
        ELSE [requests |-> r.requests, out |-> Return(r.out.value[1])]

ancientlatin_uri(text) == <<"a", "n", "c", "i", "e", "n", "t", "l", "a", "t", "i", "n", ":", "/", "/">> \o text
greeting_uri(name) == <<"g", "r", "e", "e", "t", "i", "n", "g", ":", "/", "/">> \o name
gods_uri(limit) ==
    IF limit # PyNone THEN <<"g", "o", "d", "s", ":", "/", "/">> \o <<"?", "l", "i", "m", "i", "t", "=">> \o int_to_str(limit.v)
    ELSE <<"g", "o", "d", "s", ":", "/", "/">>

get_ancient_latin_text_resource(self, text, env) ==
    IF not_connected(self) THEN Ended(NotConnected, <<>>, <<>>)
    ELSE LET r == read_content(self, ancientlatin_uri(text), env)
         IN  Ended(r.out, r.requests, <<>>)

MCPDemoClient_get_greek_gods(self, limit, env) ==
    IF not_connected(self) THEN Ended(NotConnected, <<>>, <<>>)
    ELSE LET r == read_content(self, gods_uri(limit), env)
         IN  IF r.out.kind = "raise" THEN Ended(r.out, r.requests, <<>>)
             ELSE Ended(json_loads(r.out.value), r.requests, <<>>)

MCPDemoClient_get_greeting(self, name, env) ==
    IF not_connected(self) THEN Ended(NotConnected, <<>>, <<>>)
    ELSE LET r == read_content(self, greeting_uri(name), env)
         IN  Ended(r.out, r.requests, <<>>)

\* prompt_data = await self.session.get_prompt(name, params)
\* return self.ollama.process_mcp_prompt(prompt_data)
prompt_and_generate(self, name, params, env) ==
    LET r == session_request(self,
                 [op |-> "get_prompt", name |-> name, arguments |-> params],
                 env.response)
    IN  IF r.out.kind = "raise" THEN Ended(r.out, r.requests, <<>>)
        ELSE LET p == process_mcp_prompt(self.ollama, r.out.value, env.http)
             IN  Ended(p.out, r.requests, p.posts)

\* the topic chat_about_mcp selects from the message
chat_topic(message) ==
    IF Contains(lower(message), <<"t", "o", "o", "l", "s">>) THEN PyStr(<<"t", "o", "o", "l", "s">>)
    ELSE IF Contains(lower(message), <<"r", "e", "s", "o", "u", "r", "c", "e", "s">>) THEN PyStr(<<"r", "e", "s", "o", "u", "r", "c", "e", "s">>)
    ELSE IF Contains(lower(message), <<"p", "r", "o", "m", "p", "t", "s">>) THEN PyStr(<<"p", "r", "o", "m", "p", "t", "s">>)
    ELSE PyNone

chat_about_mcp(self, message, env) ==
    IF not_connected(self) THEN Ended(NotConnected, <<>>, <<>>)
    ELSE LET topic == chat_topic(message)
             params == IF Truthy(topic) THEN [topic |-> topic.v] ELSE <<>>
         IN  prompt_and_generate(self, "mcp_expert", params, env)

get_code_review(self, code, language, env) ==
    IF not_connected(self) THEN Ended(NotConnected, <<>>, <<>>)
    ELSE prompt_and_generate(self, "code_review",
                             [code |-> code, language |-> language], env)

get_commit_message(self, changes, env) ==
    IF not_connected(self) THEN Ended(NotConnected, <<>>, <<>>)
    ELSE prompt_and_generate(self, "git_commit", [changes |-> changes], env)

(***************************************************************************)
(* The host (server.py): the Greek-gods resource                           *)
(***************************************************************************)
\* The CSV text, line by line, each line cut at its commas
GREEK_GODS_CSV ==
    <<<<"name", "domain", "symbol", "roman_name">>,
      <<"Zeus", "Sky and Thunder", "Lightning bolt", "Jupiter">>,
      <<"Poseidon", "Sea and Earthquakes", "Trident", "Neptune">>,
      <<"Hades", "Underworld", "Helmet of darkness", "Pluto">>,
      <<"Athena", "Wisdom and War", "Owl", "Minerva">>,
      <<"Apollo", "Sun and Music", "Lyre", "Apollo">>,
      <<"Artemis", "Moon and Hunt", "Bow and arrow", "Diana">>,
      <<"Aphrodite", "Love and Beauty", "Dove", "Venus">>,
      <<"Hermes", "Messengers and Travelers", "Winged sandals", "Mercury">>,
      <<"Ares", "War", "Spear", "Mars">>,
      <<"Hephaestus", "Fire and Forge", "Hammer", "Vulcan">>,
      <<"Demeter", "Agriculture", "Wheat", "Ceres">>,
      <<"Dionysus", "Wine and Festivity", "Grapevine", "Bacchus">>,
      <<"Hera", "Marriage and Family", "Peacock", "Juno">>,
      <<"Hestia", "Hearth and Home", "Hearth", "Vesta">>>>

\* (limit: Optional[int] = 10)
DefaultLimit == 10

\* csv.DictReader: the first line names the fields, every other line is a
\* row, the dict of its cells by field name
DictReader(csv) ==
    LET fieldnames == csv[1]
    IN  [i \in 1..(Len(csv) - 1) |->
            [k \in {fieldnames[j] : j \in DOMAIN fieldnames} |->
                csv[i + 1][CHOOSE j \in DOMAIN fieldnames : fieldnames[j] = k]]]

\* (mutant) the loop stops one row late: i > limit
RECURSIVE gods_loop_late(_, _, _, _)
gods_loop_late(reader, i, limit, result) ==
    IF i >= Len(reader) THEN result
    ELSE IF limit # PyNone /\ i > limit.v THEN result
    ELSE gods_loop_late(reader, i + 1, limit, Append(result, reader[i + 1]))

\* for i, row in enumerate(reader):
\*     if limit is not None and i >= limit: break
\*     result.append(row)
RECURSIVE gods_loop(_, _, _, _)
gods_loop(reader, i, limit, result) ==
    IF i >= Len(reader) THEN result
    ELSE IF limit # PyNone /\ i >= limit.v THEN result
    ELSE gods_loop(reader, i + 1, limit, Append(result, reader[i + 1]))

get_greek_gods(limit) == gods_loop(DictReader(GREEK_GODS_CSV), 0, limit, <<>>)

(***************************************************************************)
(* The host: prompts                                                       *)
(***************************************************************************)
base_prompt ==
    <<"Y", "o", "u", " ", "a", "r", "e", " ", "a", "n", " ", "M", "C", "P",
      " ", "(", "M", "o", "d", "e", "l", " ", "C", "o", "n", "t", "r", "o",
      "l", " ", "P", "r", "o", "t", "o", "c", "o", "l", ")", " ", "e", "x",
      "p", "e", "r", "t", " ", "a", "s", "s", "i", "s", "t", "a", "n", "t",
      ".", " ", "Y", "o", "u", "r", " ", "g", "o", "a", "l", " ", "i", "s",
      " ", "t", "o", " ", "p", "r", "o", "v", "i", "d", "e", " ", "a", "c",
      "c", "u", "r", "a", "t", "e", ",", " ", "\n", "h", "e", "l", "p",
      "f", "u", "l", " ", "i", "n", "f", "o", "r", "m", "a", "t", "i", "o",
      "n", " ", "a", "b", "o", "u", "t", " ", "t", "h", "e", " ", "M", "C",
      "P", " ", "p", "r", "o", "t", "o", "c", "o", "l", ",", " ", "i", "t",
      "s", " ", "c", "o", "m", "p", "o", "n", "e", "n", "t", "s", ",", " ",
      "a", "n", "d", " ", "h", "o", "w", " ", "t", "o", " ", "u", "s", "e",
      " ", "i", "t", " ", "e", "f", "f", "e", "c", "t", "i", "v", "e", "l",
      "y", ".", "\n", "\n", "T", "h", "e", " ", "M", "C", "P", " ", "p",
      "r", "o", "t", "o", "c", "o", "l", " ", "c", "o", "n", "s", "i", "s",
      "t", "s", " ", "o", "f", " ", "t", "h", "r", "e", "e", " ", "m", "a",
      "i", "n", " ", "c", "o", "m", "p", "o", "n", "e", "n", "t", "s", ":",
      "\n", "1", ".", " ", "T", "o", "o", "l", "s", ":", " ", "M", "o",
      "d", "e", "l", "-", "c", "o", "n", "t", "r", "o", "l", "l", "e", "d",
      " ", "f", "u", "n", "c", "t", "i", "o", "n", "s", " ", "t", "h", "a",
      "t", " ", "a", "l", "l", "o", "w", " ", "A", "I", " ", "m", "o", "d",
      "e", "l", "s", " ", "t", "o", " ", "t", "a", "k", "e", " ", "a", "c",
      "t", "i", "o", "n", "s", "\n", "2", ".", " ", "R", "e", "s", "o",
      "u", "r", "c", "e", "s", ":", " ", "A", "p", "p", "l", "i", "c", "a",
      "t", "i", "o", "n", "-", "c", "o", "n", "t", "r", "o", "l", "l", "e",
      "d", " ", "d", "a", "t", "a", " ", "t", "h", "a", "t", " ", "m", "o",
      "d", "e", "l", "s", " ", "c", "a", "n", " ", "a", "c", "c", "e", "s",
      "s", " ", "b", "u", "t", " ", "n", "o", "t", " ", "m", "o", "d", "i",
      "f", "y", "\n", "3", ".", " ", "P", "r", "o", "m", "p", "t", "s",
      ":", " ", "U", "s", "e", "r", "-", "c", "o", "n", "t", "r", "o", "l",
      "l", "e", "d", " ", "t", "e", "m", "p", "l", "a", "t", "e", "s", " ",
      "f", "o", "r", " ", "A", "I", " ", "i", "n", "t", "e", "r", "a", "c",
      "t", "i", "o", "n", "s", "\n", "\n", "W", "h", "e", "n", " ", "a",
      "n", "s", "w", "e", "r", "i", "n", "g", " ", "q", "u", "e", "s", "t",
      "i", "o", "n", "s", " ", "a", "b", "o", "u", "t", " ", "M", "C", "P",
      ",", " ", "f", "o", "c", "u", "s", " ", "o", "n", ":", "\n", "-",
      " ", "E", "x", "p", "l", "a", "i", "n", "i", "n", "g", " ", "c", "o",
      "n", "c", "e", "p", "t", "s", " ", "c", "l", "e", "a", "r", "l", "y",
      " ", "w", "i", "t", "h", " ", "e", "x", "a", "m", "p", "l", "e", "s",
      "\n", "-", " ", "P", "r", "o", "v", "i", "d", "i", "n", "g", " ",
      "p", "r", "a", "c", "t", "i", "c", "a", "l", " ", "i", "m", "p", "l",
      "e", "m", "e", "n", "t", "a", "t", "i", "o", "n", " ", "a", "d", "v",
      "i", "c", "e", "\n", "-", " ", "S", "u", "g", "g", "e", "s", "t",
      "i", "n", "g", " ", "b", "e", "s", "t", " ", "p", "r", "a", "c", "t",
      "i", "c", "e", "s", " ", "f", "o", "r", " ", "M", "C", "P", " ", "a",
      "r", "c", "h", "i", "t", "e", "c", "t", "u", "r", "e", "\n", "-",
      " ", "H", "e", "l", "p", "i", "n", "g", " ", "t", "r", "o", "u", "b",
      "l", "e", "s", "h", "o", "o", "t", " ", "c", "o", "m", "m", "o", "n",
      " ", "i", "s", "s", "u", "e", "s", "\n", "\n", "R", "e", "m", "e",
      "m", "b", "e", "r", " ", "t", "h", "a", "t", " ", "M", "C", "P", " ",
      "i", "s", " ", "d", "e", "s", "i", "g", "n", "e", "d", " ", "t", "o",
      " ", "c", "r", "e", "a", "t", "e", " ", "s", "a", "f", "e", "r", ",",
      " ", "m", "o", "r", "e", " ", "c", "o", "n", "t", "r", "o", "l", "l",
      "a", "b", "l", "e", " ", "A", "I", " ", "s", "y", "s", "t", "e", "m",
      "s", " ", "b", "y", " ", "c", "l", "e", "a", "r", "l", "y", " ",
      "\n", "d", "e", "f", "i", "n", "i", "n", "g", " ", "t", "h", "e",
      " ", "b", "o", "u", "n", "d", "a", "r", "i", "e", "s", " ", "b", "e",
      "t", "w", "e", "e", "n", " ", "m", "o", "d", "e", "l", " ", "c", "o",
      "n", "t", "r", "o", "l", ",", " ", "a", "p", "p", "l", "i", "c", "a",
      "t", "i", "o", "n", " ", "c", "o", "n", "t", "r", "o", "l", ",", " ",
      "a", "n", "d", " ", "u", "s", "e", "r", " ", "c", "o", "n", "t", "r",
      "o", "l", ".">>
topic_content_tools ==
    <<"\n", "T", "o", "o", "l", "s", " ", "i", "n", " ", "M", "C", "P",
      " ", "a", "r", "e", " ", "m", "o", "d", "e", "l", "-", "c", "o", "n",
      "t", "r", "o", "l", "l", "e", "d", " ", "f", "u", "n", "c", "t", "i",
      "o", "n", "s", " ", "t", "h", "a", "t", " ", "a", "l", "l", "o", "w",
      " ", "A", "I", " ", "m", "o", "d", "e", "l", "s", " ", "t", "o", " ",
      "t", "a", "k", "e", " ", "a", "c", "t", "i", "o", "n", "s", ".",
      "\n", "T", "h", "e", "y", " ", "a", "r", "e", " ", "d", "e", "f",
      "i", "n", "e", "d", " ", "o", "n", " ", "t", "h", "e", " ", "s", "e",
      "r", "v", "e", "r", " ", "s", "i", "d", "e", " ", "a", "n", "d", " ",
      "c", "a", "n", " ", "b", "e", " ", "i", "n", "v", "o", "k", "e", "d",
      " ", "b", "y", " ", "t", "h", "e", " ", "c", "l", "i", "e", "n", "t",
      ".", "\n", "T", "o", "o", "l", "s", " ", "h", "a", "v", "e", " ",
      "a", " ", "n", "a", "m", "e", ",", " ", "d", "e", "s", "c", "r", "i",
      "p", "t", "i", "o", "n", ",", " ", "a", "n", "d", " ", "p", "a", "r",
      "a", "m", "e", "t", "e", "r", "s", ",", " ", "a", "n", "d", " ", "t",
      "h", "e", "y", " ", "r", "e", "t", "u", "r", "n", " ", "a", " ", "r",
      "e", "s", "u", "l", "t", ".", "\n", "E", "x", "a", "m", "p", "l",
      "e", "s", " ", "i", "n", "c", "l", "u", "d", "e", " ", "t", "e", "x",
      "t", " ", "t", "r", "a", "n", "s", "f", "o", "r", "m", "a", "t", "i",
      "o", "n", ",", " ", "d", "a", "t", "a", " ", "p", "r", "o", "c", "e",
      "s", "s", "i", "n", "g", ",", " ", "o", "r", " ", "e", "x", "t", "e",
      "r", "n", "a", "l", " ", "A", "P", "I", " ", "c", "a", "l", "l", "s",
      ".">>
topic_content_resources ==
    <<"\n", "R", "e", "s", "o", "u", "r", "c", "e", "s", " ", "i", "n",
      " ", "M", "C", "P", " ", "a", "r", "e", " ", "a", "p", "p", "l", "i",
      "c", "a", "t", "i", "o", "n", "-", "c", "o", "n", "t", "r", "o", "l",
      "l", "e", "d", " ", "d", "a", "t", "a", " ", "t", "h", "a", "t", " ",
      "m", "o", "d", "e", "l", "s", " ", "c", "a", "n", " ", "a", "c", "c",
      "e", "s", "s", " ", "b", "u", "t", " ", "n", "o", "t", " ", "m", "o",
      "d", "i", "f", "y", ".", "\n", "T", "h", "e", "y", " ", "a", "r",
      "e", " ", "d", "e", "f", "i", "n", "e", "d", " ", "o", "n", " ", "t",
      "h", "e", " ", "s", "e", "r", "v", "e", "r", " ", "s", "i", "d", "e",
      " ", "a", "n", "d", " ", "c", "a", "n", " ", "b", "e", " ", "a", "c",
      "c", "e", "s", "s", "e", "d", " ", "b", "y", " ", "t", "h", "e", " ",
      "c", "l", "i", "e", "n", "t", ".", "\n", "R", "e", "s", "o", "u",
      "r", "c", "e", "s", " ", "h", "a", "v", "e", " ", "a", " ", "U", "R",
      "I", " ", "a", "n", "d", " ", "c", "a", "n", " ", "r", "e", "t", "u",
      "r", "n", " ", "v", "a", "r", "i", "o", "u", "s", " ", "t", "y", "p",
      "e", "s", " ", "o", "f", " ", "d", "a", "t", "a", ".", "\n", "E",
      "x", "a", "m", "p", "l", "e", "s", " ", "i", "n", "c", "l", "u", "d",
      "e", " ", "d", "a", "t", "a", "b", "a", "s", "e", " ", "r", "e", "c",
      "o", "r", "d", "s", ",", " ", "f", "i", "l", "e", " ", "c", "o", "n",
      "t", "e", "n", "t", "s", ",", " ", "o", "r", " ", "A", "P", "I", " ",
      "r", "e", "s", "p", "o", "n", "s", "e", "s", ".">>
topic_content_prompts ==
    <<"\n", "P", "r", "o", "m", "p", "t", "s", " ", "i", "n", " ", "M",
      "C", "P", " ", "a", "r", "e", " ", "u", "s", "e", "r", "-", "c", "o",
      "n", "t", "r", "o", "l", "l", "e", "d", " ", "t", "e", "m", "p", "l",
      "a", "t", "e", "s", " ", "f", "o", "r", " ", "A", "I", " ", "i", "n",
      "t", "e", "r", "a", "c", "t", "i", "o", "n", "s", ".", "\n", "T",
      "h", "e", "y", " ", "a", "r", "e", " ", "d", "e", "f", "i", "n", "e",
      "d", " ", "o", "n", " ", "t", "h", "e", " ", "s", "e", "r", "v", "e",
      "r", " ", "s", "i", "d", "e", " ", "a", "n", "d", " ", "c", "a", "n",
      " ", "b", "e", " ", "u", "s", "e", "d", " ", "b", "y", " ", "t", "h",
      "e", " ", "c", "l", "i", "e", "n", "t", ".", "\n", "P", "r", "o",
      "m", "p", "t", "s", " ", "h", "a", "v", "e", " ", "a", " ", "n", "a",
      "m", "e", ",", " ", "d", "e", "s", "c", "r", "i", "p", "t", "i", "o",
      "n", ",", " ", "a", "n", "d", " ", "o", "p", "t", "i", "o", "n", "a",
      "l", " ", "a", "r", "g", "u", "m", "e", "n", "t", "s", ".", "\n",
      "T", "h", "e", "y", " ", "r", "e", "t", "u", "r", "n", " ", "s", "t",
      "r", "u", "c", "t", "u", "r", "e", "d", " ", "m", "e", "s", "s", "a",
      "g", "e", "s", " ", "w", "i", "t", "h", " ", "r", "o", "l", "e", "s",
      " ", "a", "n", "d", " ", "c", "o", "n", "t", "e", "n", "t", ".",
      "\n", "P", "r", "o", "m", "p", "t", "s", " ", "c", "a", "n", " ",
      "i", "n", "c", "l", "u", "d", "e", " ", "d", "y", "n", "a", "m", "i",
      "c", " ", "c", "o", "n", "t", "e", "n", "t", " ", "f", "r", "o", "m",
      " ", "r", "e", "s", "o", "u", "r", "c", "e", "s", " ", "a", "n", "d",
      " ", "s", "u", "p", "p", "o", "r", "t", " ", "m", "u", "l", "t", "i",
      "-", "s", "t", "e", "p", " ", "w", "o", "r", "k", "f", "l", "o", "w",
      "s", ".">>

Message(role, text) ==
    [role |-> role, content |-> [type |-> "text", text |-> PyStr(text)]]

\* f"{x}" of a str or of None
format(x) == IF x = PyNone THEN <<"N", "o", "n", "e">> ELSE x.v

get_mcp_expert_prompt(topic) ==
    LET topic_content ==
            IF ~Truthy(topic) THEN <<>>
            ELSE IF lower(topic.v) = <<"t", "o", "o", "l", "s">> THEN topic_content_tools
            ELSE IF lower(topic.v) = <<"r", "e", "s", "o", "u", "r", "c", "e", "s">>
            THEN topic_content_resources
            ELSE IF lower(topic.v) = <<"p", "r", "o", "m", "p", "t", "s">> THEN topic_content_prompts
            ELSE <<>>
    IN  PyDict([messages |->
            <<Message("system", base_prompt \o topic_content),
              Message("user",
                  <<"P", "l", "e", "a", "s", "e", " ", "t", "e", "l", "l", " ", "m", "e", " ", "a", "b", "o", "u", "t", " ">>
                  \o (IF Truthy(topic) THEN topic.v
                      ELSE <<"M", "C", "P", " ", "i", "n", " ", "g", "e", "n", "e", "r", "a", "l">>))>>])

get_code_review_prompt(code, language) ==
    PyDict([messages |->
        <<Message("system",
              <<"Y", "o", "u", " ", "a", "r", "e", " ", "a", "n", " ", "e", "x", "p", "e", "r", "t", " ">> \o format(language)
              \o <<" ", "d", "e", "v", "e", "l", "o", "p", "e", "r", ".", " ", "Y", "o",
                 "u", "r", " ", "t", "a", "s", "k", " ", "i", "s", " ", "t", "o", " ",
                 "r", "e", "v", "i", "e", "w", " ", "c", "o", "d", "e", " ", "a", "n",
                 "d", " ", "p", "r", "o", "v", "i", "d", "e", " ", "c", "o", "n", "s",
                 "t", "r", "u", "c", "t", "i", "v", "e", " ", "f", "e", "e", "d", "b",
                 "a", "c", "k", ".">>),
          Message("user",
              <<"P", "l", "e", "a", "s", "e", " ", "r", "e", "v", "i", "e", "w", " ", "t", "h", "i", "s", " ">> \o format(language)
              \o <<" ", "c", "o", "d", "e", " ", "a", "n", "d", " ", "s", "u", "g", "g",
                 "e", "s", "t", " ", "i", "m", "p", "r", "o", "v", "e", "m", "e", "n",
                 "t", "s", ":", "\n", "\n", Backtick, Backtick, Backtick>>
              \o format(language) \o <<"\n">> \o code \o <<"\n", Backtick, Backtick, Backtick>>)>>])

\* (mutant) the user text is no f-string: {changes} is not interpolated
get_git_commit_prompt_no_fstring(changes) ==
    PyDict([messages |->
        <<Message("system",
              <<"Y", "o", "u", " ", "a", "r", "e", " ", "a", "n", " ", "e", "x", "p",
               "e", "r", "t", " ", "a", "t", " ", "w", "r", "i", "t", "i", "n", "g",
               " ", "c", "l", "e", "a", "r", ",", " ", "c", "o", "n", "c", "i", "s",
               "e", ",", " ", "a", "n", "d", " ", "i", "n", "f", "o", "r", "m", "a",
               "t", "i", "v", "e", " ", "G", "i", "t", " ", "c", "o", "m", "m", "i",
               "t", " ", "m", "e", "s", "s", "a", "g", "e", "s", ".">>),
          Message("user",
              <<"G", "e", "n", "e", "r", "a", "t", "e", " ", "a", " ", "c", "o", "m",
               "m", "i", "t", " ", "m", "e", "s", "s", "a", "g", "e", " ", "f", "o",
               "r", " ", "t", "h", "e", "s", "e", " ", "c", "h", "a", "n", "g", "e",
               "s", ":", "\n", "\n">>
              \o <<"{", "c", "h", "a", "n", "g", "e", "s", "}">>)>>])

get_git_commit_prompt(changes) ==
    PyDict([messages |->
        <<Message("system",
              <<"Y", "o", "u", " ", "a", "r", "e", " ", "a", "n", " ", "e", "x", "p",
               "e", "r", "t", " ", "a", "t", " ", "w", "r", "i", "t", "i", "n", "g",
               " ", "c", "l", "e", "a", "r", ",", " ", "c", "o", "n", "c", "i", "s",
               "e", ",", " ", "a", "n", "d", " ", "i", "n", "f", "o", "r", "m", "a",
               "t", "i", "v", "e", " ", "G", "i", "t", " ", "c", "o", "m", "m", "i",
               "t", " ", "m", "e", "s", "s", "a", "g", "e", "s", ".">>),
          Message("user",
              <<"G", "e", "n", "e", "r", "a", "t", "e", " ", "a", " ", "c", "o", "m",
               "m", "i", "t", " ", "m", "e", "s", "s", "a", "g", "e", " ", "f", "o",
               "r", " ", "t", "h", "e", "s", "e", " ", "c", "h", "a", "n", "g", "e",
               "s", ":", "\n", "\n">>
              \o changes)>>])

(***************************************************************************)
(* The host: the greeting, and the resources by URI                        *)
(***************************************************************************)
\* the greeting with the name lower-cased
get_greeting_lower(name) ==
    <<"H", "e", "l", "l", "o", ",", " ">> \o lower(name) \o <<"!">>

get_greeting(name) == <<"H", "e", "l", "l", "o", ",", " ">> \o name \o <<"!">>

\* @mcp.resource(template): the templates in registration order, each the
\* literal text before its one placeholder, the placeholder and the handler
ResourceTemplates ==
    <<[prefix |-> <<"g", "o", "d", "s", ":", "/", "/", "t", "e", "x", "t", "/">>,
       param |-> "limit", handler |-> "get_greek_gods"],
      [prefix |-> <<"a", "n", "c", "i", "e", "n", "t", "l", "a", "t", "i", "n", ":", "/", "/">>,
       param |-> "text", handler |-> "get_ancient_latin_text"],
      [prefix |-> <<"g", "r", "e", "e", "t", "i", "n", "g", ":", "/", "/">>,
       param |-> "name", handler |-> "get_greeting"]>>

\* A URI matches a template when it is the template's literal text followed
\* by a value for the placeholder: one non-empty segment, without "/".
template_matches(template, uri) ==
    /\ StartsWith(uri, template.prefix)
    /\ Len(uri) > Len(template.prefix)
    /\ \A i \in (Len(template.prefix) + 1)..Len(uri) : uri[i] # "/"

\* the handler a URI resolves to, with the placeholder's value
read_resource(uri) ==
    LET hits == {i \in DOMAIN ResourceTemplates :
                    template_matches(ResourceTemplates[i], uri)}
    IN  IF hits = {} THEN Raise("ValueError: Unknown resource")
        ELSE LET tpl == ResourceTemplates[CHOOSE i \in hits :
                                             \A j \in hits : i <= j]
             IN  Return([handler |-> tpl.handler,
                         params |-> [k \in {tpl.param} |->
                             SubSeq(uri, Len(tpl.prefix) + 1, Len(uri))]])

(***************************************************************************)
(* The host: the text mangler (ancient_latin_text)                         *)
(***************************************************************************)
\* str.upper() of one character, str.isupper() and str.isalnum() of one
\* character, over the ASCII letters and digits
upper_char(c) ==
    IF \E i \in DOMAIN LowerCase : LowerCase[i] = c
    THEN UpperCase[CHOOSE i \in DOMAIN LowerCase : LowerCase[i] = c]
    ELSE c
isupper(c) == \E i \in DOMAIN UpperCase : UpperCase[i] = c
isalnum(c) ==
    \/ \E i \in DOMAIN UpperCase : UpperCase[i] = c
    \/ \E i \in DOMAIN LowerCase : LowerCase[i] = c
    \/ \E i \in DOMAIN Digit : Digit[i] = c

\* str.capitalize(): the first character upper-cased, the rest lower-cased
capitalize(s) ==
    [i \in DOMAIN s |-> IF i = 1 THEN upper_char(s[i]) ELSE lower_char(s[i])]

\* the characters str.split() splits at
Whitespace == {" ", "\n", "\t"}
\* the characters of word.lower().strip(".,;:!?")
Punctuation == {".", ",", ";", ":", "!", "?"}

\* s.strip(chars): the characters of `chars` removed from both ends
strip(s, chars) ==
    LET kept == {i \in DOMAIN s : s[i] \notin chars}
    IN  IF kept = {} THEN <<>>
        ELSE SubSeq(s, CHOOSE i \in kept : \A j \in kept : i <= j,
                       CHOOSE i \in kept : \A j \in kept : i >= j)

\* text.split(): the maximal runs of non-whitespace characters, in order
RECURSIVE split_from(_, _, _)
split_from(text, i, word) ==
    IF i > Len(text)
    THEN IF word = <<>> THEN <<>> ELSE <<word>>
    ELSE IF text[i] \in Whitespace
         THEN (IF word = <<>> THEN <<>> ELSE <<word>>)
                  \o split_from(text, i + 1, <<>>)
         ELSE split_from(text, i + 1, Append(word, text[i]))
split(text) == split_from(text, 1, <<>>)

\* " ".join(words)
RECURSIVE join(_)
join(words) ==
    IF words = <<>> THEN <<>>
    ELSE IF Len(words) = 1 THEN words[1]
    ELSE words[1] \o <<" ">> \o join(Tail(words))

\* the table with a value that is a key of it: and -> to, to -> ad
replacements_chained ==
    (<<"t", "h", "e">> :> <<"t", "h", "y">>)
    @@ (<<"a", "n", "d">> :> <<"t", "o">>)
    @@ (<<"o", "f">> :> <<"d", "e">>)
    @@ (<<"t", "o">> :> <<"a", "d">>)
    @@ (<<"i", "n">> :> <<"i", "n">>)
    @@ (<<"i", "s">> :> <<"e", "s", "t">>)
    @@ (<<"f", "o", "r">> :> <<"p", "r", "o">>)
    @@ (<<"w", "i", "t", "h">> :> <<"c", "u", "m">>)
    @@ (<<"y", "o", "u">> :> <<"t", "u">>)
    @@ (<<"I">> :> <<"e", "g", "o">>)
    @@ (<<"w", "e">> :> <<"n", "o", "s">>)
    @@ (<<"t", "h", "e", "y">> :> <<"i", "l", "l", "i">>)
    @@ (<<"t", "h", "i", "s">> :> <<"h", "i", "c">>)
    @@ (<<"t", "h", "a", "t">> :> <<"i", "l", "l", "e">>)
    @@ (<<"h", "a", "v", "e">> :> <<"h", "a", "b", "e", "o">>)
    @@ (<<"b", "e">> :> <<"e", "s", "s", "e">>)
    @@ (<<"w", "i", "l", "l">> :> <<"v", "o", "l", "u", "n", "t", "a", "s">>)

\* the substitution table, key to value
replacements ==
    (<<"t", "h", "e">> :> <<"t", "h", "y">>)
    @@ (<<"a", "n", "d">> :> <<"e", "t">>)
    @@ (<<"o", "f">> :> <<"d", "e">>)
    @@ (<<"t", "o">> :> <<"a", "d">>)
    @@ (<<"i", "n">> :> <<"i", "n">>)
    @@ (<<"i", "s">> :> <<"e", "s", "t">>)
    @@ (<<"f", "o", "r">> :> <<"p", "r", "o">>)
    @@ (<<"w", "i", "t", "h">> :> <<"c", "u", "m">>)
    @@ (<<"y", "o", "u">> :> <<"t", "u">>)
    @@ (<<"I">> :> <<"e", "g", "o">>)
    @@ (<<"w", "e">> :> <<"n", "o", "s">>)
    @@ (<<"t", "h", "e", "y">> :> <<"i", "l", "l", "i">>)
    @@ (<<"t", "h", "i", "s">> :> <<"h", "i", "c">>)
    @@ (<<"t", "h", "a", "t">> :> <<"i", "l", "l", "e">>)
    @@ (<<"h", "a", "v", "e">> :> <<"h", "a", "b", "e", "o">>)
    @@ (<<"b", "e">> :> <<"e", "s", "s", "e">>)
    @@ (<<"w", "i", "l", "l">> :> <<"v", "o", "l", "u", "n", "t", "a", "s">>)

\* the first loop's body: the word after the substitution
replace_word(word) ==
    LET clean_word == strip(lower(word), Punctuation)
    IN  IF clean_word \in DOMAIN replacements
        THEN LET punctuation ==
                     IF ~isalnum(word[Len(word)]) THEN <<word[Len(word)]>>
                     ELSE <<>>
             IN  IF isupper(word[1])
                 THEN capitalize(replacements[clean_word]) \o punctuation
                 ELSE replacements[clean_word] \o punctuation
        ELSE word

\* The random draws of the second loop, one per word: "skip" when
\* random.random() < 0.3 is false, otherwise the suffix the second
\* random.random() < 0.5 selects.
SuffixDraws == {"skip", "us", "um"}

\* the second loop's body with a length test at 4 instead of above 4
suffix_word_from_four(word, draw) ==
    IF Len(word) >= 4 /\ draw # "skip"
    THEN IF isalnum(word[Len(word)])
         THEN IF draw = "us" THEN word \o <<"u", "s">>
              ELSE word \o <<"u", "m">>
         ELSE word
    ELSE word

\* the second loop's body: the word after the suffix step
suffix_word(word, draw) ==
    IF Len(word) > 4 /\ draw # "skip"
    THEN IF isalnum(word[Len(word)])
         THEN IF draw = "us" THEN word \o <<"u", "s">>
              ELSE word \o <<"u", "m">>
         ELSE word
    ELSE word

latin_phrases ==
    <<<<"V", "e", "n", "i", ",", " ", "v", "i", "d", "i", ",", " ", "v", "i", "c", "i", ".">>,
      <<"A", "l", "e", "a", " ", "i", "a", "c", "t", "a", " ", "e", "s", "t", ".">>,
      <<"C", "a", "r", "p", "e", " ", "d", "i", "e", "m", ".">>,
      <<"E", "t", " ", "t", "u", ",", " ", "B", "r", "u", "t", "e", "?">>,
      <<"C", "o", "g", "i", "t", "o", ",", " ", "e", "r", "g", "o", " ", "s", "u", "m", ".">>>>

\* The random draws of the phrase step: coin is random.random() < 0.5,
\* phrase the index random.choice picks and pos the value of
\* random.randint(0, len(words) - 1), with -1 for the ValueError randint
\* raises on an empty range.
PhraseDraws(n) ==
    {[coin |-> FALSE, phrase |-> 1, pos |-> 0]}
    \cup [coin : {TRUE}, phrase : DOMAIN latin_phrases,
          pos : IF n > 0 THEN 0..(n - 1) ELSE {-1}]

\* words.insert(pos, phrase)
insert(words, pos, phrase) ==
    SubSeq(words, 1, pos) \o <<phrase>> \o SubSeq(words, pos + 1, Len(words))

\* the phrase step without the test of the length
insert_phrase_unguarded(words, draw) ==
    IF draw.coin
    THEN IF draw.pos < 0 THEN Raise("ValueError")
         ELSE Return(insert(words, draw.pos, latin_phrases[draw.phrase]))
    ELSE Return(words)

\* the phrase step with the test of the length at 50 instead of above 50
insert_phrase_from_fifty(words, draw) ==
    IF Len(join(words)) >= 50 /\ draw.coin
    THEN IF draw.pos < 0 THEN Raise("ValueError")
         ELSE Return(insert(words, draw.pos, latin_phrases[draw.phrase]))
    ELSE Return(words)

\* the phrase step: the word list that is joined for the result
insert_phrase(words, draw) ==
    IF Len(join(words)) > 50 /\ draw.coin
    THEN IF draw.pos < 0 THEN Raise("ValueError")
         ELSE Return(insert(words, draw.pos, latin_phrases[draw.phrase]))
    ELSE Return(words)

\* ancient_latin_text(text) under the draws `suffix` (one per word) and
\* `phrase`: the word list after each of the three steps and the outcome
ancient_latin_text(text, suffix, phrase) ==
    LET words == split(text)
        replaced == [i \in DOMAIN words |-> replace_word(words[i])]
        suffixed == [i \in DOMAIN words |-> suffix_word(replaced[i], suffix[i])]
        final == insert_phrase(suffixed, phrase)
    IN  [words |-> words, replaced |-> replaced, suffixed |-> suffixed,
         final |-> final,
         out |-> IF final.kind = "return" THEN Return(join(final.value))
                 ELSE final]

\* get_ancient_latin_text(text), the resource: the same function
get_ancient_latin_text(text, suffix, phrase) ==
    ancient_latin_text(text, suffix, phrase)

(***************************************************************************)
(* The bridge's inputs                                                     *)
(***************************************************************************)
BaseUrls == {"http://localhost:11434", "http://test-ollama:11434"}
Models == {"llama3"}
Texts == {PyStr("Test prompt"), PyStr("")}
Systems == {PyNone, PyStr(""), PyStr("System message")}

Contents ==
    {<<>>, [type |-> "text"],
     [type |-> "text", text |-> PyStr("User message")],
     [type |-> "text", text |-> PyStr("Later message")],
     [type |-> "text", text |-> PyStr("")]}
Messages ==
    {<<>>}
    \cup {[content |-> c] : c \in Contents}
    \cup {[role |-> r] : r \in {"system", "user"}}
    \cup {[role |-> r, content |-> c] : r \in {"system", "user"}, c \in Contents}
MessageLists ==
    UNION {[1..n -> Messages] : n \in 0..MaxMessages}
PromptData ==
    {PyNone, PyStr("messages"), PyList(<<>>), PyDict(<<>>),
     PyDict([prompt |-> PyStr("Test prompt")])}
    \cup {PyDict([messages |-> ms]) : ms \in MessageLists}

\* A call that has been made and has not run yet
GenerateCalls ==
    [fn : {"generate"}, state : {"called"}, prompt : Texts, system : Systems,
     http : HttpOutcomes]
ProcessCalls ==
    [fn : {"process_mcp_prompt"}, state : {"called"},
     prompt_data : PromptData, http : HttpOutcomes]

\* the client as MCPDemoClient.__init__ leaves it
NewClient ==
    /\ session = "None"
    /\ handshake = "none"
    /\ transport = "none"
    /\ pc = "idle"
    /\ clientCall = [method |-> "__init__"]
    /\ disconnected = FALSE

\* no host function called
HostIdle == hostCall = [fn |-> "none", state |-> "idle"]

\* run_command not called: the client's methods are called directly
NoRun == run = [command |-> "none", pc |-> "none", log |-> <<>>,
                pending |-> "none"]

InitBridge ==
    /\ ollama \in {OllamaClient(u, m) : u \in BaseUrls, m \in Models}
    /\ bridgeCall \in GenerateCalls \cup ProcessCalls
    /\ NewClient
    /\ pathExists = TRUE
    /\ HostIdle
    /\ NoRun

CallGenerate ==
    /\ bridgeCall.fn = "generate" /\ bridgeCall.state = "called"
    /\ LET c == bridgeCall
           g == generate(ollama, c.prompt, c.system, c.http)
       IN  bridgeCall' = [fn |-> "generate", state |-> "done",
                          prompt |-> c.prompt, system |-> c.system,
                          http |-> c.http, posts |-> g.posts, out |-> g.out]
    /\ UNCHANGED <<ollama, clientVars, hostVars, runVars>>

CallProcessMcpPrompt ==
    /\ bridgeCall.fn = "process_mcp_prompt" /\ bridgeCall.state = "called"
    /\ LET c == bridgeCall
           p == process_mcp_prompt(ollama, c.prompt_data, c.http)
       IN  bridgeCall' = [fn |-> "process_mcp_prompt", state |-> "done",
                          prompt_data |-> c.prompt_data, http |-> c.http,
                          posts |-> p.posts, calls |-> p.calls,
                          out |-> p.out]
    /\ UNCHANGED <<ollama, clientVars, hostVars, runVars>>

NextBridge == CallGenerate \/ CallProcessMcpPrompt

SpecBridge == InitBridge /\ [][NextBridge]_vars

(***************************************************************************)
(* The client's callers: one coroutine, one call at a time                 *)
(***************************************************************************)
ClientTexts == {<<>>, <<"t", "h", "e", " ", "f", "o", "x">>}
ClientNames == {<<"W", "o", "r", "l", "d">>, <<"a", "/", "b">>}
ClientLimits == {PyNone, PyInt(0), PyInt(5), PyInt(100)}
ChatMessages ==
    {<<"W", "h", "a", "t", " ", "i", "s", " ", "M", "C", "P", "?">>, <<"A", "b", "o", "u", "t", " ", "T", "o", "o", "l", "s">>,
     <<"p", "r", "o", "m", "p", "t", "s", ",", " ", "r", "e", "s", "o", "u", "r", "c", "e", "s">>}
Codes == {<<"x", "=", "1">>}
Languages == {<<"p", "y", "t", "h", "o", "n">>}
Changes == {<<"A", "d", "d", "e", "d", " ", "X">>}

\* what the host may send back, and what the backend may answer
TextResponses == {PyStr(<<"T", "h", "y", " ", "f", "o", "x">>)}
JsonResponses ==
    {[json |-> TRUE, value |-> PyList(<<>>)], [json |-> FALSE, value |-> PyNone]}
PromptResponses ==
    {[t |-> "GetPromptResult"],
     PyDict([messages |->
         <<[role |-> "user",
            content |-> [type |-> "text", text |-> PyStr("User message")]]>>])}
ClientHttp ==
    {[kind |-> "failure", detail |-> "Connection refused"],
     [kind |-> "response", status |-> 200, wrapsJson |-> TRUE,
      body |-> [json |-> TRUE,
                value |-> PyDict([response |-> PyStr("Generated text")])]]}
Env(responses) == [response : responses, http : ClientHttp]

Self == [session |-> session, transport |-> transport, ollama |-> ollama]

\* a method call that ran to its end and left the client as it was
Called(method, args, r) ==
    /\ clientCall' = [method |-> method, args |-> args,
                      sessionWas |-> session, out |-> r.out,
                      requests |-> r.requests, posts |-> r.posts]
    /\ UNCHANGED <<session, handshake, transport, pc, pathExists,
                   disconnected, bridgeVars, hostVars>>

\* the same, called directly
Completed(method, args, r) == Called(method, args, r) /\ UNCHANGED runVars

InitClient ==
    /\ ollama \in {OllamaClient(u, m) : u \in BaseUrls, m \in Models}
    /\ bridgeCall = [fn |-> "none", state |-> "idle"]
    /\ NewClient
    /\ pathExists \in BOOLEAN
    /\ HostIdle
    /\ NoRun

\* connect(), up to its await of session.initialize(): the path check, the
\* stdio_client context entered, self.session assigned
connect_enter ==
    /\ pc = "idle"
    /\ IF path_missing(pathExists)
       THEN /\ clientCall' = [method |-> "connect", args |-> <<>>,
                              sessionWas |-> session,
                              out |-> Raise("FileNotFoundError"),
                              requests |-> <<>>, posts |-> <<>>]
            /\ UNCHANGED <<session, handshake, transport, pc>>
       ELSE /\ transport' = "open"
            /\ session' = "ClientSession"
            /\ handshake' = "pending"
            /\ pc' = "initialize"
            /\ clientCall' = [method |-> "connect", args |-> <<>>,
                              sessionWas |-> session,
                              out |-> [kind |-> "pending"],
                              requests |-> <<>>, posts |-> <<>>]
    /\ UNCHANGED <<pathExists, disconnected, bridgeVars, hostVars>>

\* session.initialize() completes: `return self.session` leaves the
\* `async with stdio_client(...)` block, which closes the transport
connect_return ==
    /\ pc = "initialize"
    /\ handshake' = "done"
    /\ transport' = "closed"
    /\ pc' = "idle"
    /\ clientCall' = [clientCall EXCEPT !.out = Return(session)]
    /\ disconnected' = FALSE
    /\ UNCHANGED <<session, pathExists, bridgeVars, hostVars>>

\* session.initialize() raises: the exception leaves the block, which closes
\* the transport; self.session keeps the session object
connect_raise ==
    /\ pc = "initialize"
    /\ handshake' = "failed"
    /\ transport' = "closed"
    /\ pc' = "idle"
    /\ clientCall' = [clientCall EXCEPT !.out = Raise("McpError")]
    /\ UNCHANGED <<session, pathExists, disconnected, bridgeVars, hostVars>>

\* disconnect(): session.aclose() completes (closed) and the field is
\* cleared, or it raises and the field stays; nothing at all without a
\* session
disconnect(closed) ==
    /\ pc = "idle"
    /\ IF session # "None" /\ closed
       THEN session' = "None" /\ handshake' = "none"
       ELSE UNCHANGED <<session, handshake>>
    /\ clientCall' = [method |-> "disconnect", args |-> <<>>,
                      sessionWas |-> session,
                      out |-> IF session # "None" /\ ~closed
                              THEN Raise("aclose failed")
                              ELSE Return(PyNone),
                      requests |-> <<>>, posts |-> <<>>]
    /\ disconnected' = IF session # "None" /\ ~closed THEN disconnected
                       ELSE TRUE
    /\ UNCHANGED <<transport, pc, pathExists, bridgeVars, hostVars>>

\* connect and disconnect called directly
ConnectStart == connect_enter /\ UNCHANGED runVars
ConnectReturn == connect_return /\ UNCHANGED runVars
ConnectFail == connect_raise /\ UNCHANGED runVars
Disconnect == \E closed \in BOOLEAN : disconnect(closed) /\ UNCHANGED runVars

TransformToAncientLatin ==
    /\ pc = "idle"
    /\ \E text \in ClientTexts, env \in Env(TextResponses) :
        Completed("transform_to_ancient_latin", <<text>>,
                  transform_to_ancient_latin(Self, text, env))

GetAncientLatinTextResource ==
    /\ pc = "idle"
    /\ \E text \in ClientTexts, env \in Env(TextResponses) :
        Completed("get_ancient_latin_text_resource", <<text>>,
                  get_ancient_latin_text_resource(Self, text, env))

GetGreekGods ==
    /\ pc = "idle"
    /\ \E limit \in ClientLimits, env \in Env(JsonResponses) :
        Completed("get_greek_gods", <<limit>>,
                  MCPDemoClient_get_greek_gods(Self, limit, env))

GetGreeting ==
    /\ pc = "idle"
    /\ \E name \in ClientNames, env \in Env(TextResponses) :
        Completed("get_greeting", <<name>>,
                  MCPDemoClient_get_greeting(Self, name, env))

ChatAboutMcp ==
    /\ pc = "idle"
    /\ \E message \in ChatMessages, env \in Env(PromptResponses) :
        Completed("chat_about_mcp", <<message>>,
                  chat_about_mcp(Self, message, env))

GetCodeReview ==
    /\ pc = "idle"
    /\ \E code \in Codes, language \in Languages, env \in Env(PromptResponses) :
        Completed("get_code_review", <<code, language>>,
                  get_code_review(Self, code, language, env))

GetCommitMessage ==
    /\ pc = "idle"
    /\ \E changes \in Changes, env \in Env(PromptResponses) :
        Completed("get_commit_message", <<changes>>,
                  get_commit_message(Self, changes, env))

Next ==
    \/ ConnectStart
    \/ ConnectReturn
    \/ ConnectFail
    \/ Disconnect
    \/ TransformToAncientLatin
    \/ GetAncientLatinTextResource
    \/ GetGreekGods
    \/ GetGreeting
    \/ ChatAboutMcp
    \/ GetCodeReview
    \/ GetCommitMessage

Spec == InitClient /\ [][Next]_vars

(***************************************************************************)
(* The host's callers                                                      *)
(***************************************************************************)
\* the longest text drawn letter by letter, and the largest limit
MaxTextLen == 2
MaxLimit == 16

HostAlphabet == {"a", "T", "/", "\n"}
HostTexts ==
    UNION {[1..n -> HostAlphabet] : n \in 0..MaxTextLen}
    \cup {<<"t", "o", "o", "l", "s">>, <<"T", "o", "o", "l", "s">>, <<"r", "e", "s", "o", "u", "r", "c", "e", "s">>,
          <<"P", "R", "O", "M", "P", "T", "S">>, <<"t", "h", "e", " ", "f", "o", "x">>}
\* texts of one path segment, for the URIs: what a template makes of an
\* empty value or of a "/" in it is the MCP library's business
SegmentTexts ==
    {t \in HostTexts : t # <<>> /\ \A i \in DOMAIN t : t[i] # "/"}
HostLimits == {PyNone} \cup {PyInt(n) : n \in (-1)..MaxLimit}
HostLanguages == {PyNone, PyStr(<<"p", "y", "t", "h", "o", "n">>), PyStr(<<"g", "o">>)}

\* A host function called and not run yet.  `given` tells whether the
\* optional argument was passed; when it was not, the default stands.
HostCalls ==
    [fn : {"get_greek_gods"}, state : {"called"}, given : {TRUE},
     limit : HostLimits]
    \cup [fn : {"get_greek_gods"}, state : {"called"}, given : {FALSE},
          limit : {PyInt(DefaultLimit)}]
    \cup [fn : {"get_mcp_expert_prompt"}, state : {"called"},
          topic : {PyNone} \cup {PyStr(t) : t \in HostTexts}]
    \cup [fn : {"get_code_review_prompt"}, state : {"called"},
          code : HostTexts, language : HostLanguages]
    \cup [fn : {"get_git_commit_prompt"}, state : {"called"},
          changes : HostTexts]
    \cup [fn : {"get_greeting"}, state : {"called"}, name : HostTexts]
    \* the URIs the client builds
    \cup {[fn |-> "read_resource", state |-> "called", builder |-> "gods",
           arg |-> l, uri |-> gods_uri(l)] : l \in HostLimits}
    \cup {[fn |-> "read_resource", state |-> "called",
           builder |-> "ancientlatin", arg |-> t,
           uri |-> ancientlatin_uri(t)] : t \in SegmentTexts}
    \cup {[fn |-> "read_resource", state |-> "called",
           builder |-> "greeting", arg |-> t,
           uri |-> greeting_uri(t)] : t \in SegmentTexts}

InitHost ==
    /\ ollama = OllamaClient("http://localhost:11434", "llama3")
    /\ bridgeCall = [fn |-> "none", state |-> "idle"]
    /\ NewClient
    /\ pathExists = TRUE
    /\ hostCall \in HostCalls
    /\ NoRun

\* the call runs and its result is kept with it
HostReturns(fn, out) ==
    /\ hostCall.fn = fn /\ hostCall.state = "called"
    /\ hostCall' = [k \in DOMAIN hostCall \cup {"out"} |->
                       IF k = "out" THEN out
                       ELSE IF k = "state" THEN "done"
                       ELSE hostCall[k]]
    /\ UNCHANGED <<bridgeVars, clientVars, runVars>>

CallGetGreekGods ==
    HostReturns("get_greek_gods", get_greek_gods(hostCall.limit))

CallGetMcpExpertPrompt ==
    HostReturns("get_mcp_expert_prompt", get_mcp_expert_prompt(hostCall.topic))

CallGetCodeReviewPrompt ==
    HostReturns("get_code_review_prompt",
                get_code_review_prompt(hostCall.code, hostCall.language))

CallGetGitCommitPrompt ==
    HostReturns("get_git_commit_prompt",
                get_git_commit_prompt(hostCall.changes))

CallGetGreeting ==
    HostReturns("get_greeting", get_greeting(hostCall.name))

ReadResource ==
    HostReturns("read_resource", read_resource(hostCall.uri))

NextHost ==
    \/ CallGetGreekGods
    \/ CallGetMcpExpertPrompt
    \/ CallGetCodeReviewPrompt
    \/ CallGetGitCommitPrompt
    \/ CallGetGreeting
    \/ ReadResource

SpecHost == InitHost /\ [][NextHost]_vars

(***************************************************************************)
(* The text mangler's callers                                              *)
(***************************************************************************)
\* the most tokens of a text put together from RunTokens
MaxTokens == 2

\* tokens: the keys of the table as they stand, and tokens with capitals,
\* punctuation before and after, four and five letters, and two long ones
\* (23 and 24 letters) that bring a joined text to 50 characters and above
KeyTokens == DOMAIN replacements
OtherTokens ==
    {<<"T", "h", "e">>,
     <<"T", "H", "E">>,
     <<"t", "h", "e", ".">>,
     <<"t", "h", "e", "!", "?">>,
     <<".", "t", "h", "e">>,
     <<"i">>,
     <<"W", "i", "l", "l", ",">>,
     <<"h", "a", "v", "e", ".">>,
     <<"f", "o", "x">>,
     <<"l", "a", "z", "y">>,
     <<"q", "u", "i", "c", "k">>,
     <<"h", "e", "l", "l", "o", "!">>,
     <<".", ".", ".">>,
     <<"e", "l", "e", "c", "t", "r", "o", "e", "n", "c", "e", "p", "h", "a", "l", "o", "g", "r", "a", "p", "h", "i", "c">>,
     <<"e", "l", "e", "c", "t", "r", "o", "e", "n", "c", "e", "p", "h", "a", "l", "o", "g", "r", "a", "p", "h", "i", "e", "s">>}
RunTokens ==
    {<<"t", "h", "e">>,
     <<"W", "i", "l", "l", ",">>,
     <<"e", "l", "e", "c", "t", "r", "o", "e", "n", "c", "e", "p", "h", "a", "l", "o", "g", "r", "a", "p", "h", "i", "c">>,
     <<"e", "l", "e", "c", "t", "r", "o", "e", "n", "c", "e", "p", "h", "a", "l", "o", "g", "r", "a", "p", "h", "i", "e", "s">>}
\* texts with other whitespace than one space between the tokens
SpacedTexts ==
    {<<>>,
     <<" ">>,
     <<"t", "h", "e", " ", " ", "f", "o", "x">>,
     <<" ", "t", "h", "e", "\n", "f", "o", "x", " ">>,
     <<"\t", "T", "o", " ", "b", "e">>}
LatinTexts ==
    KeyTokens \cup OtherTokens \cup SpacedTexts
    \cup {join(ws) : ws \in UNION {[1..n -> RunTokens] : n \in 0..MaxTokens}}

\* the tool or the resource called with a text, and not run yet
\* `previous` is empty, or holds the call whose result this call's text is
LatinCalls ==
    [fn : {"ancient_latin_text", "get_ancient_latin_text"},
     state : {"called"}, text : LatinTexts, previous : {<<>>}]

InitLatin ==
    /\ ollama = OllamaClient("http://localhost:11434", "llama3")
    /\ bridgeCall = [fn |-> "none", state |-> "idle"]
    /\ NewClient
    /\ pathExists = TRUE
    /\ hostCall \in LatinCalls
    /\ NoRun

\* the call runs under some outcome of its random draws; the word list
\* after each step and the outcome are kept with the call
LatinReturns(fn, steps) ==
    /\ hostCall.fn = fn /\ hostCall.state = "called"
    /\ hostCall' = [fn |-> fn, state |-> "done", text |-> hostCall.text,
                    previous |-> hostCall.previous,
                    words |-> steps.words, replaced |-> steps.replaced,
                    suffixed |-> steps.suffixed, final |-> steps.final,
                    out |-> steps.out]
    /\ UNCHANGED <<bridgeVars, clientVars, runVars>>

CallAncientLatinText ==
    /\ hostCall.fn = "ancient_latin_text" /\ hostCall.state = "called"
    /\ \E suffix \in [1..Len(split(hostCall.text)) -> SuffixDraws] :
        \E phrase \in PhraseDraws(Len(split(hostCall.text))) :
            LatinReturns("ancient_latin_text",
                         ancient_latin_text(hostCall.text, suffix, phrase))

CallGetAncientLatinText ==
    /\ hostCall.fn = "get_ancient_latin_text" /\ hostCall.state = "called"
    /\ \E suffix \in [1..Len(split(hostCall.text)) -> SuffixDraws] :
        \E phrase \in PhraseDraws(Len(split(hostCall.text))) :
            LatinReturns("get_ancient_latin_text",
                         get_ancient_latin_text(hostCall.text, suffix, phrase))

\* the random steps left the words alone: no suffix, no phrase
Plain(call) ==
    call.suffixed = call.replaced /\ call.final = Return(call.suffixed)

\* The caller feeds a result that the random steps left alone back to the
\* function it came from.
CallOnResult ==
    /\ hostCall.state = "done" /\ hostCall.previous = <<>>
    /\ hostCall.out.kind = "return"
    /\ Plain(hostCall)
    /\ hostCall' = [fn |-> hostCall.fn, state |-> "called",
                    text |-> hostCall.out.value,
                    previous |-> <<[text |-> hostCall.text,
                                    out |-> hostCall.out.value]>>]
    /\ UNCHANGED <<bridgeVars, clientVars, runVars>>

NextLatin ==
    \/ CallAncientLatinText
    \/ CallGetAncientLatinText
    \/ CallOnResult

SpecLatin == InitLatin /\ [][NextLatin]_vars

(***************************************************************************)
(* run_command                                                             *)
(***************************************************************************)
\* args.command, as the parser's subcommands name the seven actions
Commands ==
    {"latin", "latin-resource", "gods", "greeting", "chat", "review",
     "commit"}

\* where run_command goes on without its finally block: an exception ends it
run_next_no_finally(at, out) ==
    CASE at = "connect" -> IF out.kind = "raise" THEN "done" ELSE "command"
      [] at = "command" -> IF out.kind = "raise" THEN "done" ELSE "finally"
      [] at = "finally" -> "done"

\* Where run_command goes on after the call it made at `at` has ended with
\* `out`: try: connect, then the command's action; finally: disconnect.
run_next(at, out) ==
    CASE at = "connect" -> IF out.kind = "raise" THEN "finally" ELSE "command"
      [] at = "command" -> "finally"
      [] at = "finally" -> "done"

\* the call the client has just ended is entered in the run's record
Ran(at) ==
    run' = [command |-> run.command,
            pc |-> run_next(at, clientCall'.out),
            log |-> Append(run.log, [method |-> clientCall'.method,
                                     kind |-> clientCall'.out.kind]),
            pending |-> IF clientCall'.out.kind = "raise"
                        THEN clientCall'.out.exc ELSE run.pending]

\* MCPDemoClient(...) is created and the try block is entered
InitRun ==
    /\ ollama \in {OllamaClient(u, m) : u \in BaseUrls, m \in Models}
    /\ bridgeCall = [fn |-> "none", state |-> "idle"]
    /\ NewClient
    /\ pathExists \in BOOLEAN
    /\ HostIdle
    /\ run \in [command : Commands, pc : {"connect"}, log : {<<>>},
                pending : {"none"}]

\* await client.connect(), up to where connect awaits the handshake
RunConnectStart ==
    /\ run.pc = "connect"
    /\ connect_enter
    /\ IF clientCall'.out.kind = "pending"
       THEN run' = [run EXCEPT !.pc = "connecting"]
       ELSE Ran("connect")

\* connect returns
RunConnectReturn ==
    /\ run.pc = "connecting"
    /\ connect_return
    /\ Ran("connect")

\* connect raises from the handshake
RunConnectFail ==
    /\ run.pc = "connecting"
    /\ connect_raise
    /\ Ran("connect")

\* the if / elif chain over args.command: the one action of the command
RunCommand ==
    /\ run.pc = "command"
    /\ pc = "idle"
    /\ \/ /\ run.command = "latin"
          /\ \E text \in ClientTexts, env \in Env(TextResponses) :
                Called("transform_to_ancient_latin", <<text>>,
                       transform_to_ancient_latin(Self, text, env))
       \/ /\ run.command = "latin-resource"
          /\ \E text \in ClientTexts, env \in Env(TextResponses) :
                Called("get_ancient_latin_text_resource", <<text>>,
                       get_ancient_latin_text_resource(Self, text, env))
       \/ /\ run.command = "gods"
          /\ \E limit \in ClientLimits, env \in Env(JsonResponses) :
                Called("get_greek_gods", <<limit>>,
                       MCPDemoClient_get_greek_gods(Self, limit, env))
       \/ /\ run.command = "greeting"
          /\ \E name \in ClientNames, env \in Env(TextResponses) :
                Called("get_greeting", <<name>>,
                       MCPDemoClient_get_greeting(Self, name, env))
       \/ /\ run.command = "chat"
          /\ \E message \in ChatMessages, env \in Env(PromptResponses) :
                Called("chat_about_mcp", <<message>>,
                       chat_about_mcp(Self, message, env))
       \/ /\ run.command = "review"
          /\ \E code \in Codes, language \in Languages,
                env \in Env(PromptResponses) :
                Called("get_code_review", <<code, language>>,
                       get_code_review(Self, code, language, env))
       \/ /\ run.command = "commit"
          /\ \E changes \in Changes, env \in Env(PromptResponses) :
                Called("get_commit_message", <<changes>>,
                       get_commit_message(Self, changes, env))
    /\ Ran("command")

\* finally: await client.disconnect()
RunDisconnect ==
    /\ run.pc = "finally"
    /\ \E closed \in BOOLEAN : disconnect(closed)
    /\ Ran("finally")

NextRun ==
    \/ RunConnectStart
    \/ RunConnectReturn
    \/ RunConnectFail
    \/ RunCommand
    \/ RunDisconnect

SpecRun == InitRun /\ [][NextRun]_vars

(***************************************************************************)
(* The Generation Bridge: claims                                           *)
(***************************************************************************)
ProcessDone ==
    bridgeCall.fn = "process_mcp_prompt" /\ bridgeCall.state = "done"
GenerateDone ==
    bridgeCall.fn = "generate" /\ bridgeCall.state = "done"
IsMessageList(pd) == pd.t = "dict" /\ "messages" \in DOMAIN pd.v
ReturnsStr(out, s) == out = Return(PyStr(s))

\* C4 (as claimed): for every message list and every answer of the backend,
\* process_mcp_prompt returns a string and raises nothing.
C4_NeverThrows ==
    (ProcessDone /\ IsMessageList(bridgeCall.prompt_data))
        => /\ bridgeCall.out.kind = "return"
           /\ bridgeCall.out.value.t = "str"

\* C5: an input that is no dict, or a dict without "messages", is answered
\* "Error: Invalid prompt format", and generate is not called (no post).
C5_InvalidPromptFormat ==
    (ProcessDone /\ ~IsMessageList(bridgeCall.prompt_data))
        => /\ ReturnsStr(bridgeCall.out, "Error: Invalid prompt format")
           /\ bridgeCall.calls = <<>>
           /\ bridgeCall.posts = <<>>

C5_Witness ==
    /\ ProcessDone
    /\ bridgeCall.prompt_data = PyDict([prompt |-> PyStr("Test prompt")])
    /\ ReturnsStr(bridgeCall.out, "Error: Invalid prompt format")

\* a user-role message that carries text
CarriesUserText(m) ==
    /\ "role" \in DOMAIN m /\ m["role"] = "user"
    /\ "content" \in DOMAIN m /\ "text" \in DOMAIN m["content"]

\* C6 (as claimed): a message list with no user-role message carrying text
\* is answered "Error: Missing user message", nothing is raised and
\* generate is not called, with or without a system-role message.
C6_MissingUserMessage ==
    (/\ ProcessDone
     /\ IsMessageList(bridgeCall.prompt_data)
     /\ \A i \in DOMAIN bridgeCall.prompt_data.v["messages"] :
            ~CarriesUserText(bridgeCall.prompt_data.v["messages"][i]))
        => /\ ReturnsStr(bridgeCall.out, "Error: Missing user message")
           /\ bridgeCall.calls = <<>>
           /\ bridgeCall.posts = <<>>

\* what C7 says of the request and of the result, but for the system field
C7_OnePostAndResult ==
    /\ GenerateDone =>
        /\ Len(bridgeCall.posts) = 1
        /\ bridgeCall.posts[1].url = ollama.base_url \o "/api/generate"
        /\ {"model", "prompt", "stream"} \subseteq DOMAIN bridgeCall.posts[1].json
        /\ bridgeCall.posts[1].json["model"] = PyStr(ollama.model)
        /\ bridgeCall.posts[1].json["prompt"] = bridgeCall.prompt
        /\ bridgeCall.posts[1].json["stream"] = FALSE
        /\ "system" \in DOMAIN bridgeCall.posts[1].json
              => bridgeCall.posts[1].json["system"] = bridgeCall.system
        /\ bridgeCall.http.kind = "failure"
              => ReturnsStr(bridgeCall.out, "Error: " \o bridgeCall.http.detail)
        /\ (/\ bridgeCall.http.kind = "response"
            /\ bridgeCall.http.status = 200
            /\ bridgeCall.http.body.json
            /\ bridgeCall.http.body.value.t = "dict"
            /\ "response" \in DOMAIN bridgeCall.http.body.value.v)
              => bridgeCall.out
                    = Return(bridgeCall.http.body.value.v["response"])
    \* one post for each generate call made through process_mcp_prompt too
    /\ ProcessDone => Len(bridgeCall.posts) = Len(bridgeCall.calls)

ClientActions ==
    {"transform_to_ancient_latin", "get_ancient_latin_text_resource",
     "get_greek_gods", "get_greeting", "chat_about_mcp", "get_code_review",
     "get_commit_message"}

C2_SessionOnlyAfterHandshake ==
    session # "None" => handshake = "done"

\* C3 (as claimed): once connect() has returned the session, the transport
\* it opened is still open for the action invoked next.
C3_TransportOpenAfterConnect ==
    (/\ clientCall.method = "connect"
     /\ clientCall.out.kind = "return"
     /\ pc = "idle")
        => transport = "open"

(***************************************************************************)
(* The host: claims                                                        *)
(***************************************************************************)
HostDone(fn) == hostCall.fn = fn /\ hostCall.state = "done"
GodFields == {"name", "domain", "symbol", "roman_name"}
Min(a, b) == IF a <= b THEN a ELSE b

\* the first n rows of the table, in file order: row i is line i + 1 of the
\* CSV text, cell by cell under the header's names
FirstRows(result, n) ==
    /\ Len(result) = n
    /\ \A i \in 1..n : \A j \in 1..4 :
          result[i][GREEK_GODS_CSV[1][j]] = GREEK_GODS_CSV[i + 1][j]

C9_ClientUrisResolve ==
    HostDone("read_resource") =>
        /\ hostCall.out.kind = "return"
        /\ hostCall.builder = "gods" =>
              /\ hostCall.out.value.handler = "get_greek_gods"
              /\ hostCall.arg # PyNone =>
                    hostCall.out.value.params
                        = [limit |-> int_to_str(hostCall.arg.v)]
        /\ hostCall.builder = "ancientlatin" =>
              /\ hostCall.out.value.handler = "get_ancient_latin_text"
              /\ hostCall.out.value.params = [text |-> hostCall.arg]
        /\ hostCall.builder = "greeting" =>
              /\ hostCall.out.value.handler = "get_greeting"
              /\ hostCall.out.value.params = [name |-> hostCall.arg]

\* two messages, system then user, each with content of type text
TwoMessages(prompt) ==
    /\ prompt.t = "dict"
    /\ Len(prompt.v["messages"]) = 2
    /\ prompt.v["messages"][1]["role"] = "system"
    /\ prompt.v["messages"][2]["role"] = "user"
    /\ \A i \in 1..2 :
          /\ prompt.v["messages"][i]["content"]["type"] = "text"
          /\ prompt.v["messages"][i]["content"]["text"].t = "str"
UserText(prompt) == prompt.v["messages"][2]["content"]["text"].v

\* C10: each of the three prompt templates returns exactly two messages,
\* system then user, each with content of type text, and the user text
\* contains the caller's content (topic, code, changes) verbatim.
C10_Prompts ==
    /\ HostDone("get_mcp_expert_prompt") =>
          /\ TwoMessages(hostCall.out)
          /\ hostCall.topic # PyNone =>
                Contains(UserText(hostCall.out), hostCall.topic.v)
    /\ HostDone("get_code_review_prompt") =>
          /\ TwoMessages(hostCall.out)
          /\ Contains(UserText(hostCall.out), hostCall.code)
    /\ HostDone("get_git_commit_prompt") =>
          /\ TwoMessages(hostCall.out)
          /\ Contains(UserText(hostCall.out), hostCall.changes)

\* a commit prompt for changes that the template's own text does not hold
C10_Witness ==
    /\ HostDone("get_git_commit_prompt")
    /\ hostCall.changes = <<"t", "h", "e", " ", "f", "o", "x">>
    /\ Contains(UserText(hostCall.out), <<"t", "h", "e", " ", "f", "o", "x">>)

(***************************************************************************)
(* The text mangler: claims                                                *)
(***************************************************************************)
LatinDone ==
    /\ hostCall.fn \in {"ancient_latin_text", "get_ancient_latin_text"}
    /\ hostCall.state = "done"

\* the tokens of a result that returned
ResultTokens == split(hostCall.out.value)

\* a phrase stands whole in the tokens T behind position p
PhraseAt(T, p, phrase) ==
    /\ p + Len(split(phrase)) <= Len(T)
    /\ SubSeq(T, p + 1, p + Len(split(phrase))) = split(phrase)

\* the tokens T without the k tokens behind position p
Without(T, p, k) == SubSeq(T, 1, p) \o SubSeq(T, p + k + 1, Len(T))

\* the result's tokens that stand for the input's tokens: all of them, or,
\* when the result has more tokens than the input, all but those of the
\* phrase that accounts for the difference
InputTokensInResult ==
    LET T == ResultTokens
        n == Len(hostCall.words)
        hits == {h \in (0..Len(T)) \X DOMAIN latin_phrases :
                    /\ PhraseAt(T, h[1], latin_phrases[h[2]])
                    /\ Len(T) - Len(split(latin_phrases[h[2]])) = n}
    IN  IF Len(T) = n \/ hits = {} THEN T
        ELSE LET h == CHOOSE h \in hits : TRUE
             IN  Without(T, h[1], Len(split(latin_phrases[h[2]])))

\* a token without its punctuation and capitals, as the table is keyed
Core(token) == strip(lower(token), Punctuation)

\* C11 (as claimed): for every text and every outcome of the random draws,
\* each token whose punctuation-stripped, lower-cased form is a key of the
\* substitution table stands in the output as that key's value (capitals and
\* punctuation apart), and this holds for each of the 17 entries: a token
\* that is a key as the table writes it comes out as the key's value.
C11_Substitution ==
    LatinDone =>
        /\ hostCall.out.kind = "return"
        /\ Len(InputTokensInResult) = Len(hostCall.words)
        /\ \A i \in DOMAIN hostCall.words :
              /\ Core(hostCall.words[i]) \in DOMAIN replacements =>
                    Core(InputTokensInResult[i])
                        = replacements[Core(hostCall.words[i])]
              /\ \A key \in DOMAIN replacements :
                    hostCall.words[i] = key =>
                        InputTokensInResult[i] = replacements[key]

\* the punctuation characters a token ends in
RECURSIVE TrailingPunctuation(_)
TrailingPunctuation(token) ==
    IF token = <<>> \/ token[Len(token)] \notin Punctuation THEN <<>>
    ELSE TrailingPunctuation(SubSeq(token, 1, Len(token) - 1))
             \o <<token[Len(token)]>>

\* the token is one the substitution step replaces
Substituted(token) == Core(token) \in DOMAIN replacements

\* C12 (as claimed): when a token is substituted, the replacement's first
\* letter is upper-case exactly when the token's first character was, every
\* trailing punctuation character of the token still follows the
\* replacement, and only trailing punctuation was stripped for the
\* comparison with the table.
C12_CapitalizationAndPunctuation ==
    LatinDone =>
        \A i \in DOMAIN hostCall.words :
            LET token == hostCall.words[i]
                replacement == hostCall.replaced[i]
            IN  Substituted(token) =>
                    /\ isupper(replacement[1]) <=> isupper(token[1])
                    /\ TrailingPunctuation(replacement)
                           = TrailingPunctuation(token)
                    /\ SubSeq(lower(token), 1,
                              Len(token) - Len(TrailingPunctuation(token)))
                           \in DOMAIN replacements

\* C13: the text mangler, as the tool and as the resource, returns the empty
\* string for the empty string, whatever the random draws, and raises
\* nothing.
C13_EmptyText ==
    (LatinDone /\ hostCall.text = <<>>) => hostCall.out = Return(<<>>)

\* the resource has run on the empty string
C13_Witness ==
    /\ hostCall.fn = "get_ancient_latin_text" /\ hostCall.state = "done"
    /\ hostCall.text = <<>>
    /\ hostCall.words = <<>>
    /\ hostCall.out = Return(<<>>)

\* C18: in the suffix step a token, taken as it stands after the
\* substitution step, is left as it is or gets exactly "us" or "um" once;
\* it can get the suffix only if it is longer than 4 characters and ends in
\* an alphanumeric character, so a token of at most 4 characters or one
\* ending in punctuation leaves the step unchanged.
C18_Suffix ==
    LatinDone =>
        \A i \in DOMAIN hostCall.replaced :
            LET before == hostCall.replaced[i]
                after == hostCall.suffixed[i]
            IN  /\ \/ after = before
                   \/ after = before \o <<"u", "s">>
                   \/ after = before \o <<"u", "m">>
                /\ after # before =>
                       /\ Len(before) > 4
                       /\ isalnum(before[Len(before)])
                /\ (Len(before) <= 4 \/ ~isalnum(before[Len(before)])) =>
                       after = before

\* "will", four letters, is substituted by "voluntas", which gets a suffix
C18_Witness ==
    /\ LatinDone
    /\ hostCall.words = <<<<"w", "i", "l", "l">>>>
    /\ hostCall.replaced = <<<<"v", "o", "l", "u", "n", "t", "a", "s">>>>
    /\ hostCall.suffixed = <<<<"v", "o", "l", "u", "n", "t", "a", "s", "u", "s">>>>

\* C19: a Latin phrase is inserted only when the string joined after
\* substitution and suffixing is longer than 50 characters; then at most one
\* of the five phrases is inserted whole at a token position and the other
\* tokens keep their content and order; when the joined string has 50
\* characters or fewer, the output has as many tokens as the input, in the
\* input's order.
C19_Phrase ==
    LatinDone =>
        LET W == hostCall.suffixed
        IN  /\ hostCall.out.kind = "return"
            /\ \/ ResultTokens = W
               \/ /\ Len(join(W)) > 50
                  /\ \E p \in 0..Len(W) : \E k \in DOMAIN latin_phrases :
                        /\ hostCall.out.value
                               = join(insert(W, p, latin_phrases[k]))
                        /\ PhraseAt(ResultTokens, p, latin_phrases[k])
                        /\ Without(ResultTokens, p,
                                   Len(split(latin_phrases[k]))) = W
            /\ Len(join(W)) <= 50 =>
                  /\ Len(ResultTokens) = Len(split(hostCall.text))
                  /\ ResultTokens = W

\* two long tokens, 51 characters once both have a suffix, and a phrase
\* between them
C19_Witness ==
    /\ LatinDone
    /\ Len(hostCall.words) = 2
    /\ Len(join(hostCall.suffixed)) = 51
    /\ Len(hostCall.final.value) = 3
    /\ hostCall.final.value[2] = latin_phrases[3]

(***************************************************************************)
(* The greeting: claims                                                    *)
(***************************************************************************)
\* C14: get_greeting(N) returns exactly "Hello, ", then N unchanged (not
\* trimmed, not escaped, in its own case), then "!".
C14_Greeting ==
    HostDone("get_greeting") =>
        /\ Len(hostCall.out) = Len(hostCall.name) + 8
        /\ SubSeq(hostCall.out, 1, 7) = <<"H", "e", "l", "l", "o", ",", " ">>
        /\ SubSeq(hostCall.out, 8, 7 + Len(hostCall.name)) = hostCall.name
        /\ hostCall.out[Len(hostCall.out)] = "!"

\* a name with a capital and a newline
C14_Witness ==
    /\ HostDone("get_greeting")
    /\ hostCall.name = <<"T", "\n">>
    /\ hostCall.out = <<"H", "e", "l", "l", "o", ",", " ", "T", "\n", "!">>

(***************************************************************************)
(* connect with a missing server script: claims                            *)
(***************************************************************************)
\* C15: connect() with a server script path that does not exist raises a
\* file-not-found error before any server process is started or any session
\* is created; the session stays unset, so every action called afterwards
\* raises the not-connected error.
C15_MissingServerScript ==
    ~pathExists =>
        /\ session = "None" /\ handshake = "none" /\ transport = "none"
        /\ clientCall.method = "connect" =>
              /\ clientCall.out = Raise("FileNotFoundError")
              /\ clientCall.requests = <<>>
        /\ clientCall.method \in ClientActions =>
              /\ clientCall.out = NotConnected
              /\ clientCall.requests = <<>> /\ clientCall.posts = <<>>

\* connect has raised for the missing script and left the client as new
C15_Witness ==
    /\ ~pathExists
    /\ clientCall.method = "connect"
    /\ clientCall.out = Raise("FileNotFoundError")
    /\ session = "None" /\ transport = "none"

(***************************************************************************)
(* process_mcp_prompt and the first message of a role: claims              *)
(***************************************************************************)
HasRole(m, role) == "role" \in DOMAIN m /\ m["role"] = role

\* the first message of the role in the list; the list has one
FirstOfRole(messages, role) ==
    messages[CHOOSE i \in DOMAIN messages :
                /\ HasRole(messages[i], role)
                /\ \A j \in 1..(i - 1) : ~HasRole(messages[j], role)]

\* C16 (as claimed): for a message list that holds at least one user-role
\* message with text, process_mcp_prompt calls generate exactly once, with
\* the text of the first user-role message as prompt and the text of the
\* first system-role message as system (None when the list has no
\* system-role message), and returns what generate returns.
C16_FirstMessages ==
    (/\ ProcessDone
     /\ IsMessageList(bridgeCall.prompt_data)
     /\ \E i \in DOMAIN bridgeCall.prompt_data.v["messages"] :
           /\ HasRole(bridgeCall.prompt_data.v["messages"][i], "user")
           /\ has_text(bridgeCall.prompt_data.v["messages"][i]))
    => LET messages == bridgeCall.prompt_data.v["messages"]
           user == FirstOfRole(messages, "user")
           system ==
               IF \E i \in DOMAIN messages : HasRole(messages[i], "system")
               THEN FirstOfRole(messages, "system")
               ELSE <<>>
           system_text ==
               IF has_text(system) THEN system["content"]["text"] ELSE PyNone
       IN  /\ Len(bridgeCall.calls) = 1
           /\ Len(bridgeCall.posts) = 1
           /\ has_text(user)
           /\ bridgeCall.calls[1].prompt = user["content"]["text"]
           /\ bridgeCall.calls[1].system = system_text
           /\ bridgeCall.out
                  = generate(ollama, user["content"]["text"], system_text,
                             bridgeCall.http).out

(***************************************************************************)
(* run_command: claims                                                     *)
(***************************************************************************)
\* the places in the run's record where the method, or an action, stands
LogOf(method) == {i \in DOMAIN run.log : run.log[i].method = method}
LogOfActions == {i \in DOMAIN run.log : run.log[i].method \in ClientActions}

\* C17: in every run of run_command the events are connect, then at most one
\* capability call, then disconnect: the call comes only after connect has
\* returned, there is no second call, and disconnect is executed exactly
\* once on every path, also when connect or the call raises.
C17_RunOrder ==
    run.pc # "none" =>
        /\ Cardinality(LogOf("connect")) <= 1
        /\ Cardinality(LogOfActions) <= 1
        /\ Cardinality(LogOf("disconnect")) <= 1
        /\ run.log # <<>> => run.log[1].method = "connect"
        /\ \A i \in LogOfActions :
              i = 2 /\ run.log[1] = [method |-> "connect", kind |-> "return"]
        /\ \A i \in LogOf("disconnect") : i = Len(run.log)
        /\ run.pc = "done" =>
              /\ Cardinality(LogOf("connect")) = 1
              /\ Cardinality(LogOf("disconnect")) = 1

\* a run whose capability call raised, with the disconnect after it
C17_Witness ==
    /\ run.pc = "done"
    /\ Len(run.log) = 3
    /\ run.log[1] = [method |-> "connect", kind |-> "return"]
    /\ run.log[2] = [method |-> "get_greeting", kind |-> "raise"]
    /\ run.log[3].method = "disconnect"

(***************************************************************************)
(* chat_about_mcp: claims                                                  *)
(***************************************************************************)
\* the parameters the claim names for a message: the topic that is the
\* first of tools, resources, prompts to occur in the lower-cased message,
\* and none when none of them occurs
TopicParams(message) ==
    LET occurs(word) == Contains(lower(message), word)
    IN  IF occurs(<<"t", "o", "o", "l", "s">>) THEN [topic |-> <<"t", "o", "o", "l", "s">>]
        ELSE IF occurs(<<"r", "e", "s", "o", "u", "r", "c", "e", "s">>) THEN [topic |-> <<"r", "e", "s", "o", "u", "r", "c", "e", "s">>]
        ELSE IF occurs(<<"p", "r", "o", "m", "p", "t", "s">>) THEN [topic |-> <<"p", "r", "o", "m", "p", "t", "s">>]
        ELSE <<>>

\* C20 (as claimed): chat_about_mcp on a connected client requests the
\* prompt "mcp_expert" with the topic selected from the message as its only
\* parameter (no parameter when no topic occurs) and nothing else of the
\* message, passes the prompt result unchanged to the Generation Bridge and
\* returns the bridge's result.
C20_ChatAboutMcp ==
    (clientCall.method = "chat_about_mcp" /\ clientCall.sessionWas # "None")
    => /\ clientCall.requests
              = <<[op |-> "get_prompt", name |-> "mcp_expert",
                   arguments |-> TopicParams(clientCall.args[1])]>>
       /\ \E env \in Env(PromptResponses) :
              /\ clientCall.out
                     = process_mcp_prompt(ollama, env.response, env.http).out
              /\ clientCall.posts
                     = process_mcp_prompt(ollama, env.response, env.http).posts

(***************************************************************************)
(* disconnect: claims                                                      *)
(***************************************************************************)
\* C21 (as claimed): after disconnect() completes the session is unset, and
\* every action raises the not-connected error until a later connect()
\* succeeds; disconnect() with no session set does nothing and raises
\* nothing; the session is unset only after the session's close has
\* completed, so a close that fails leaves the session set.
C21_Disconnect ==
    /\ clientCall.method = "disconnect" =>
          /\ clientCall.out.kind = "return" => session = "None"
          /\ clientCall.sessionWas = "None" =>
                clientCall.out = Return(PyNone) /\ session = "None"
          /\ clientCall.out.kind = "raise" =>
                session = clientCall.sessionWas /\ session # "None"
    /\ (disconnected /\ clientCall.method \in ClientActions) =>
          /\ clientCall.out = NotConnected
          /\ clientCall.requests = <<>> /\ clientCall.posts = <<>>

(***************************************************************************)
(* The text mangler applied to its own result: claims                      *)
(***************************************************************************)
\* a value of the table as it can stand in a result: as the table writes it
\* or capitalized, alone or with one punctuation character behind it
ValueTokens ==
    {v \o p : v \in {replacements[k] : k \in DOMAIN replacements}
                    \cup {capitalize(replacements[k]) :
                             k \in DOMAIN replacements},
              p \in {<<>>} \cup {<<c>> : c \in Punctuation}}

\* C22: with the random steps suppressed (no suffix, no phrase) the text
\* mangler is deterministic and idempotent: its result is the join of the
\* substituted words, and applied to its own result it returns that result
\* unchanged, because no value of the table, with or without capital and
\* trailing punctuation, is changed by the substitution.
C22_Idempotent ==
    (LatinDone /\ Plain(hostCall)) =>
        /\ hostCall.out
               = Return(join([i \in DOMAIN hostCall.words |->
                                 replace_word(hostCall.words[i])]))
        /\ hostCall.previous # <<>> =>
              /\ hostCall.text = hostCall.previous[1].out
              /\ hostCall.out = Return(hostCall.previous[1].out)
              /\ \A token \in ValueTokens : replace_word(token) = token

\* "the!?" came out as "thy?", and "thy?" comes out as itself
C22_Witness ==
    /\ LatinDone /\ Plain(hostCall)
    /\ hostCall.previous
           = <<[text |-> <<"t", "h", "e", "!", "?">>, out |-> <<"t", "h", "y", "?">>]>>
    /\ hostCall.out = Return(<<"t", "h", "y", "?">>)

=============================================================================
